---- MODULE Spec2Model ----
(***************************************************************************)
(* State-machine model of the elastic-config-operator reconcilers: the     *)
(* connection pool (internal/pools, globals.GetOrCreateElasticsearch-      *)
(* Connection), the per-kind Sync functions and the Reconcile loops.       *)
(***************************************************************************)
EXTENDS Integers, Sequences, FiniteSets, TLC

(* ------------------------------ bounds -------------------------------- *)

\* number of reconcile attempts in one behaviour (also the clock's range)
MaxClock == 3
\* number of connection objects that may be constructed in one behaviour
MaxConns == 2
\* number of workers that call the pool concurrently
MaxWorkers == 2
\* number of Kubernetes API calls that may fail in one behaviour
MaxFaults == 1
\* number of times the user edits the record in one behaviour
MaxEdits == 1
\* number of times the password in the credentials secret is changed
MaxRotations == 1

\* the configuration-object names a record may declare
Names == {"a", "b"}
Workers == 1..MaxWorkers

(* ------------------------------ errors -------------------------------- *)

\* A Go error value: what failed, and for a remote API error the HTTP
\* status and the response body that fmt.Errorf puts in the text.
Err(type, status, body) == [type |-> type, status |-> status, body |-> body]
NoErr == Err("nil", "", "")
ApiErr == Err("api error", "500 Internal Server Error", "boom")
NetErr == Err("transport error", "", "")

(* ------------------------- cluster selectors --------------------------- *)

Selector(ns, name, endpoint, user, pwRef, caRef, ctype) ==
    [Namespace |-> ns, Name |-> name, Endpoint |-> endpoint, Username |-> user,
     PasswordSecretRef |-> pwRef, CACertSecretRef |-> caRef, ClusterType |-> ctype]

\* the values the selector's clusterType field admits besides "" (unset)
ClusterTypes == {"elasticsearch", "opensearch"}

SelAuto     == Selector("ns", "es", "", "", FALSE, FALSE, "")
SelManual   == Selector("ns", "es", "https://manual:9200", "admin", TRUE, TRUE, "opensearch")
SelManualES == Selector("ns", "es", "https://manual:9200", "admin", TRUE, TRUE, "elasticsearch")
SelManualNoCA == Selector("ns", "os", "https://other:9200", "admin", TRUE, FALSE, "")
SelNoUser   == Selector("ns", "os", "https://other:9200", "", TRUE, FALSE, "")
SelNoPwRef  == Selector("ns", "os", "https://other:9200", "admin", FALSE, FALSE, "")
Selectors == {SelAuto, SelManual, SelManualES, SelManualNoCA, SelNoUser, SelNoPwRef}

\* clusterKey := fmt.Sprintf("%s_%s", selector.Namespace, selector.Name)
ClusterKey(sel) == sel.Namespace \o "_" \o sel.Name
Keys == {ClusterKey(s) : s \in Selectors}

(* ----------------------- the environment's answers --------------------- *)

\* What the Kubernetes API and the remote cluster answer during one
\* connection build.  secret / ca: the referenced secret is there with the
\* key, is missing, or lacks the key; cluster: the ECK resource exists;
\* client: elasticsearch.NewClient accepts the configuration; info: the
\* answer to GET / (cluster info).
InfoOK(dist, number) == [kind |-> "ok", distribution |-> dist, number |-> number]
InfoBad(kind) == [kind |-> kind, distribution |-> "", number |-> ""]
InfoResponses ==
    {InfoOK("opensearch", "2.11.0"), InfoOK("", "8.11.0"), InfoOK("elasticsearch", "8.11.0"),
     InfoBad("transport error"), InfoBad("http error"), InfoBad("unparseable")}
Answers == [secret : {"ok", "missing", "no key"}, ca : {"ok", "missing", "no key"},
            cluster : BOOLEAN, client : BOOLEAN, info : InfoResponses]
\* The build returns at the first request that fails and makes no request
\* after it, so the answers with at most one request going wrong give every
\* outcome of a build.
Wrong(e) ==
    (IF e.secret = "ok" THEN 0 ELSE 1) + (IF e.ca = "ok" THEN 0 ELSE 1)
        + (IF e.cluster THEN 0 ELSE 1) + (IF e.client THEN 0 ELSE 1)
        + (IF e.info.kind = "ok" THEN 0 ELSE 1)
Envs == {e \in Answers : Wrong(e) <= 1}
\* the answers while a reconciler builds its connection: all is well, the
\* password secret is missing, or the cluster does not answer
RecordEnvs ==
    {e \in Envs : /\ e.ca = "ok" /\ e.cluster /\ e.client
                  /\ e.secret \in {"ok", "missing"}
                  /\ e.info \in {InfoOK("opensearch", "2.11.0"), InfoOK("", "8.11.0"),
                                 InfoBad("transport error")}}

(* --------------------------- connections ------------------------------- *)

\* pools.ElasticsearchConnection; id stands for the pointer's identity.
\* Password is the generation of the secret's password the connection was
\* built with (0: none); GBuild fills it in.
Conn(id, endpoint, user, ca, ctype, version) ==
    [id |-> id, Endpoint |-> endpoint, Username |-> user, CACert |-> ca,
     ClusterType |-> ctype, Version |-> version, Password |-> 0]
\* Password: password in the connection literal
WithPassword(conn, pw) == [conn EXCEPT !.Password = pw]
NoConn == Conn(0, "", "", "", "", "")

VARIABLES
    pool,      \* ElasticsearchConnectionsStore.Store: key -> connection (NoConn: absent)
    nextId,    \* identity of the next connection object constructed
    g,         \* per worker: the GetOrCreateElasticsearchConnection call in progress
    returned,  \* observation: per key, the connection the first successful call
               \* since the last Delete of the key returned (NoConn: none yet)
    password   \* the password in the credentials secret (its generation)

poolVars == <<pool, nextId, g, returned>>

\* a worker's call frame: pc, arguments, result and what the call did
\* (observations: seen, the value of returned[key] when the call started;
\* failed, whether a Kubernetes or cluster request of the call was refused)
\* (pw, the secret's password when the call started; info, the cluster's
\* answer to the cluster-info request; infoCalls, the number of cluster-info
\* requests the call made; asked, the answers to the Kubernetes requests the
\* call made)
InfoNotAsked == InfoBad("not asked")
Answered(secret, ca, cluster) == [secret |-> secret, ca |-> ca, cluster |-> cluster]
NothingAsked == Answered("none", "none", "none")
GIdle == [pc |-> "idle", key |-> "", sel |-> SelAuto, conn |-> NoConn, err |-> NoErr,
          built |-> NoConn, fetched |-> FALSE, probed |-> FALSE, seen |-> NoConn,
          failed |-> FALSE, pw |-> 0, info |-> InfoNotAsked, infoCalls |-> 0,
          asked |-> NothingAsked]

(* -------------------- detectClusterType (part_002) --------------------- *)

Detected(err, ctype, version) == [err |-> err, clusterType |-> ctype, version |-> version]

\* a detection for which everything but "elasticsearch" is OpenSearch
detectClusterTypeDefaultOpenSearch(info, clusterTypeOverride) ==
    IF info.kind # "ok"
        THEN Detected(Err("failed to get cluster info", "", ""), "", "")
    ELSE IF clusterTypeOverride # ""
        THEN Detected(NoErr, clusterTypeOverride, info.number)
    ELSE IF info.distribution = "elasticsearch"
        THEN Detected(NoErr, "elasticsearch", info.number)
    ELSE Detected(NoErr, "opensearch", info.number)

\* a detection that, given an override, does not look at the answer
detectClusterTypeTrustingOverride(info, clusterTypeOverride) ==
    IF clusterTypeOverride # ""
        THEN Detected(NoErr, clusterTypeOverride, info.number)
    ELSE IF info.kind # "ok"
        THEN Detected(Err("failed to get cluster info", "", ""), "", "")
    ELSE IF info.distribution = "opensearch"
        THEN Detected(NoErr, "opensearch", info.number)
    ELSE Detected(NoErr, "elasticsearch", info.number)

\* a detection that takes the distribution field as the cluster type
detectClusterTypeFromDistribution(info, clusterTypeOverride) ==
    IF info.kind # "ok"
        THEN Detected(Err("failed to get cluster info", "", ""), "", "")
    ELSE IF clusterTypeOverride # ""
        THEN Detected(NoErr, clusterTypeOverride, info.number)
    ELSE Detected(NoErr, info.distribution, info.number)

\* the number of client.Info calls detectClusterType makes: one in the
\* override branch, one in the auto-detect branch
InfoCalls(clusterTypeOverride) == IF clusterTypeOverride # "" THEN 1 ELSE 1

detectClusterType(info, clusterTypeOverride) ==
    IF info.kind = "transport error"
        THEN Detected(Err("failed to get cluster info", "", ""), "", "")
    ELSE IF info.kind = "http error"
        THEN Detected(Err("cluster info request failed", "", ""), "", "")
    ELSE IF info.kind = "unparseable"
        THEN Detected(Err("failed to parse cluster info", "", ""), "", "")
    ELSE IF clusterTypeOverride # ""
        THEN Detected(NoErr, clusterTypeOverride, info.number)
    ELSE IF info.distribution = "opensearch"
        THEN Detected(NoErr, "opensearch", info.number)
    ELSE Detected(NoErr, "elasticsearch", info.number)

(* ------------- credential and TLS resolution (part_002) ---------------- *)

Resolved(err, endpoint, user, ca, fetched) ==
    [err |-> err, endpoint |-> endpoint, username |-> user, caCert |-> ca, fetched |-> fetched]

ResolveManual(sel, env) ==
    IF sel.Username = ""
        THEN Resolved(Err("username is required when using manual configuration", "", ""), "", "", "", FALSE)
    ELSE IF ~sel.PasswordSecretRef
        THEN Resolved(Err("passwordSecretRef is required when using manual configuration", "", ""), "", "", "", FALSE)
    ELSE IF env.secret = "missing"
        THEN Resolved(Err("failed to get password secret", "", ""), "", "", "", TRUE)
    ELSE IF env.secret = "no key"
        THEN Resolved(Err("password not found in secret", "", ""), "", "", "", TRUE)
    ELSE IF sel.CACertSecretRef /\ env.ca = "missing"
        THEN Resolved(Err("failed to get CA certificate secret", "", ""), "", "", "", TRUE)
    ELSE IF sel.CACertSecretRef /\ env.ca = "no key"
        THEN Resolved(Err("CA certificate not found in secret", "", ""), "", "", "", TRUE)
    ELSE Resolved(NoErr, sel.Endpoint, sel.Username,
                  IF sel.CACertSecretRef THEN "ca-pem" ELSE "", TRUE)

ResolveAuto(sel, env) ==
    IF ~env.cluster
        THEN Resolved(Err("failed to get ECK cluster", "", ""), "", "", "", TRUE)
    ELSE IF env.secret = "missing"
        THEN Resolved(Err("failed to get Elasticsearch credentials secret", "", ""), "", "", "", TRUE)
    ELSE IF env.ca = "missing"
        THEN Resolved(Err("failed to get CA certificate secret", "", ""), "", "", "", TRUE)
    ELSE Resolved(NoErr, "https://" \o sel.Name \o "-es-http." \o sel.Namespace \o ".svc:9200",
                  "elastic", IF env.ca = "ok" THEN "ca-pem" ELSE "", TRUE)

Resolve(sel, env) ==
    IF sel.Endpoint # "" THEN ResolveManual(sel, env) ELSE ResolveAuto(sel, env)

(* ------------------ ElasticsearchConnectionsStore ---------------------- *)

\* Get: connection, exists := c.Store[key] under the read lock
StoreGet(store, key) == store[key]
StoreHas(store, key) == store[key] # NoConn
\* Set: c.Store[key] = connection under the write lock
StoreSet(store, key, connection) == [store EXCEPT ![key] = connection]
\* Delete: delete(c.Store, key) under the write lock
StoreDelete(store, key) == [store EXCEPT ![key] = NoConn]

(* ------------- GetOrCreateElasticsearchConnection (part_002) ----------- *)

Built(err, conn, fetched, probed) ==
    [err |-> err, conn |-> conn, fetched |-> fetched, probed |-> probed]

\* The Get calls for secrets and for the ECK resource that the call makes
\* for this selector, with their answers ("none": the call is not made): a
\* call is made only when every check and call before it went through
Asked(sel, env) ==
    IF sel.Endpoint # ""
        THEN LET secret == sel.Username # "" /\ sel.PasswordSecretRef
                 ca == secret /\ env.secret = "ok" /\ sel.CACertSecretRef
             IN  Answered(IF secret THEN env.secret ELSE "none",
                          IF ca THEN env.ca ELSE "none", "none")
        ELSE Answered(IF env.cluster THEN env.secret ELSE "none",
                      IF env.cluster /\ env.secret # "missing" THEN env.ca ELSE "none",
                      IF env.cluster THEN "ok" ELSE "missing")

\* a build that goes on with an assumed dialect when the probe fails
BuildConnectionUnprobed(sel, env, id) ==
    LET r == Resolve(sel, env) IN
    IF r.err # NoErr THEN Built(r.err, NoConn, r.fetched, FALSE)
    ELSE IF ~env.client
        THEN Built(Err("failed to create Elasticsearch client", "", ""), NoConn, r.fetched, FALSE)
    ELSE LET d == detectClusterType(env.info, sel.ClusterType) IN
         Built(NoErr, Conn(id, r.endpoint, r.username, r.caCert,
                           IF d.err # NoErr THEN "elasticsearch" ELSE d.clusterType, d.version),
               r.fetched, TRUE)

\* lines 31-181: everything between the pool lookup and the pool store
BuildConnection(sel, env, id) ==
    LET r == Resolve(sel, env) IN
    IF r.err # NoErr THEN Built(r.err, NoConn, r.fetched, FALSE)
    ELSE IF ~env.client
        THEN Built(Err("failed to create Elasticsearch client", "", ""), NoConn, r.fetched, FALSE)
    ELSE LET d == detectClusterType(env.info, sel.ClusterType) IN
         IF d.err # NoErr
             THEN Built(Err("failed to detect cluster type", "", d.err.type), NoConn, r.fetched, TRUE)
         ELSE Built(NoErr, Conn(id, r.endpoint, r.username, r.caCert, d.clusterType, d.version),
                    r.fetched, TRUE)

\* does one of the requests the call makes for this selector fail: the
\* "if err != nil" branches and the empty-value checks between the pool
\* lookup and the pool store
RequestFails(sel, env) ==
    \/ sel.Endpoint # "" /\ sel.Username = ""
    \/ sel.Endpoint # "" /\ ~sel.PasswordSecretRef
    \/ sel.Endpoint # "" /\ env.secret # "ok"
    \/ sel.Endpoint # "" /\ sel.CACertSecretRef /\ env.ca # "ok"
    \/ sel.Endpoint = "" /\ ~env.cluster
    \/ sel.Endpoint = "" /\ env.secret = "missing"
    \/ sel.Endpoint = "" /\ env.ca = "missing"
    \/ ~env.client
    \/ env.info.kind # "ok"

\* the call starts: the frame of worker w gets its arguments
GStart(w, sel) ==
    [GIdle EXCEPT !.pc = "lookup", !.key = ClusterKey(sel), !.sel = sel,
                  !.seen = returned[ClusterKey(sel)], !.pw = password]

\* lines 25-29: return the pooled connection if there is one
GLookup(w) ==
    /\ g[w].pc = "lookup"
    /\ IF StoreHas(pool, g[w].key)
          THEN g' = [g EXCEPT ![w].pc = "done", ![w].conn = StoreGet(pool, g[w].key)]
          ELSE g' = [g EXCEPT ![w].pc = "build"]
    /\ UNCHANGED <<pool, nextId, returned>>

\* lines 31-181: resolve, construct the client, probe; an error returns at once
GBuild(w, E) ==
    /\ g[w].pc = "build"
    /\ nextId <= MaxConns
    /\ \E env \in E :
          LET b == BuildConnection(g[w].sel, env, nextId)
              info == IF b.probed THEN env.info ELSE InfoNotAsked
              infoCalls == IF b.probed THEN InfoCalls(g[w].sel.ClusterType) ELSE 0
          IN
          IF b.err # NoErr
            THEN /\ g' = [g EXCEPT ![w].pc = "done", ![w].err = b.err,
                                   ![w].fetched = b.fetched, ![w].probed = b.probed,
                                   ![w].failed = RequestFails(g[w].sel, env),
                                   ![w].info = info, ![w].infoCalls = infoCalls,
                                   ![w].asked = Asked(g[w].sel, env)]
                 /\ nextId' = nextId
            ELSE /\ g' = [g EXCEPT ![w].pc = "store",
                                   ![w].built = WithPassword(b.conn, password),
                                   ![w].fetched = b.fetched, ![w].probed = b.probed,
                                   ![w].failed = RequestFails(g[w].sel, env),
                                   ![w].info = info, ![w].infoCalls = infoCalls,
                                   ![w].asked = Asked(g[w].sel, env)]
                 /\ nextId' = nextId + 1
    /\ UNCHANGED <<pool, returned>>

\* lines 183-185: elasticsearchConnectionsPool.Set(clusterKey, connection); return it
GStore(w) ==
    /\ g[w].pc = "store"
    /\ pool' = StoreSet(pool, g[w].key, g[w].built)
    /\ g' = [g EXCEPT ![w].pc = "done", ![w].conn = g[w].built]
    /\ returned' = IF returned[g[w].key] = NoConn
                     THEN [returned EXCEPT ![g[w].key] = g[w].built]
                     ELSE returned
    /\ UNCHANGED nextId

GetOrCreateElasticsearchConnection(w, E) == GLookup(w) \/ GBuild(w, E) \/ GStore(w)

(* =========================== the record =============================== *)

Kinds == {"IndexTemplate", "SnapshotRepository", "SnapshotLifecyclePolicy",
          "IndexStateManagement", "ClusterSettings"}
FlatKinds == Kinds \ {"ClusterSettings"}

\* A resource body (apiextensionsv1.JSON).  object: the raw JSON is an
\* object, so json.Unmarshal into map[string]interface{} succeeds.  For the
\* flat kinds doc is the opaque document; for ClusterSettings keys are the
\* top-level setting keys of the category's object (values left out).
FlatBody(object, doc) == [object |-> object, doc |-> doc]
FlatBodies == {FlatBody(TRUE, "{v1}"), FlatBody(FALSE, "[]")}

\* Strings that the code takes apart are sequences of characters.
Dot == "."
Categories == { <<"p">>, <<"t">> }
SettingKeys == { <<"x">>, <<"y", Dot, "z">> }
SettingsBody(object, keys) == [object |-> object, keys |-> keys]
SettingsBodies == {SettingsBody(TRUE, {<<"x">>}), SettingsBody(TRUE, SettingKeys),
                   SettingsBody(FALSE, {})}

\* every map[string]JSON over the kind's names
Maps(D, B) == UNION {[S -> B] : S \in SUBSET D}
ResourcesOf(k) == IF k = "ClusterSettings" THEN Maps(Categories, SettingsBodies)
                  ELSE Maps(Names, FlatBodies)

\* Spec.SyncInterval values: unset, two durations, one that does not parse
SyncIntervals == {"", "5m", "soon"}
DefaultSyncInterval == "10s"

\* time.ParseDuration: the duration in seconds, or an error
Parsed(err, seconds) == [err |-> err, seconds |-> seconds]
ParseDuration(s) ==
    IF s = "10s" THEN Parsed(NoErr, 10)
    ELSE IF s = "5m" THEN Parsed(NoErr, 300)
    ELSE Parsed(Err("time: invalid duration", "", s), 0)

\* the selectors a record may carry, and its own namespace
RecordNamespace == "ns"
RecordSelectors == {[SelManualNoCA EXCEPT !.Namespace = ""], SelNoUser}

\* Sync, first lines: an empty selector namespace becomes the record's namespace
DefaultedSelector(sel, crNamespace) ==
    IF sel.Namespace = "" THEN [sel EXCEPT !.Namespace = crNamespace] ELSE sel

(* ------------------------------ status -------------------------------- *)

\* the phase the type's comment and the README give a new record; no
\* statement of the reconcilers assigns it
PhasePending == "Pending"
PhaseSyncing == "Syncing"
PhaseReady == "Ready"
PhaseError == "Error"

Message(text, err) == [text |-> text, err |-> err]
NoMessage == Message("", NoErr)
Condition(type, status, reason) == [type |-> type, status |-> status, reason |-> reason]
NoCondition == Condition("", "", "")

\* the Status of a record that no reconcile has touched
EmptyStatus ==
    [phase |-> "", message |-> NoMessage, targetCluster |-> "",
     appliedResources |-> {}, lastSyncTime |-> 0, conditions |-> NoCondition]

\* SetSyncing: phase and message (the persist is part of the calling action)
SetSyncing(st) ==
    [st EXCEPT !.phase = PhaseSyncing, !.message = Message("Synchronizing", NoErr)]

\* a SetReady that leaves the applied list as it was
SetReadyKeepingApplied(st, targetCluster, appliedResources, now) ==
    [st EXCEPT !.phase = PhaseReady,
               !.message = Message("Successfully synced", NoErr),
               !.targetCluster = targetCluster,
               !.lastSyncTime = now]

\* SetReady: phase, message, target cluster, applied list and sync time
SetReady(st, targetCluster, appliedResources, now) ==
    [st EXCEPT !.phase = PhaseReady,
               !.message = Message("Successfully synced", NoErr),
               !.targetCluster = targetCluster,
               !.appliedResources = appliedResources,
               !.lastSyncTime = now]

\* a SetError that writes the message and leaves the phase
SetErrorKeepingPhase(st, text, err) ==
    [st EXCEPT !.message = Message(text, err)]

\* a SetError that also forgets what was applied
SetErrorClearingApplied(st, text, err) ==
    [st EXCEPT !.phase = PhaseError, !.message = Message(text, err),
               !.appliedResources = {}]

\* SetError: phase and the error's text as message
SetError(st, text, err) ==
    [st EXCEPT !.phase = PhaseError, !.message = Message(text, err)]

\* UpdateConditionSuccess / UpdateConditionKubernetesApiCallFailure
UpdateConditionSuccess(st) ==
    [st EXCEPT !.conditions = Condition("ResourceSynced", "True", "TargetSynced")]
UpdateConditionKubernetesApiCallFailure(st) ==
    [st EXCEPT !.conditions = Condition("ResourceSynced", "True", "KubernetesApiCallError")]

\* targetCluster := fmt.Sprintf("%s/%s", selector.Namespace, selector.Name)
TargetCluster(sel) == sel.Namespace \o "/" \o sel.Name

(* --------------------------- remote calls ------------------------------ *)

\* The remote cluster's answers to one adapter call.
DeleteOutcomes(present) ==
    IF present THEN {"200", "500", "transport error"} ELSE {"404", "500", "transport error"}
ApplyOutcomes == {"200", "500", "transport error"}

\* a delete<Kind> that does not look at the response's status
deleteResourceIgnoringStatus(outcome) ==
    IF outcome = "transport error" THEN NetErr ELSE NoErr

\* a delete<Kind> for which every error status is an error, 404 included
deleteResourceNotFoundIsError(outcome) ==
    IF outcome = "transport error" THEN NetErr
    ELSE IF outcome \in {"404", "500"} THEN ApiErr
    ELSE NoErr

\* delete<Kind>: the error the adapter returns; 404 counts as deleted
deleteResource(outcome) ==
    IF outcome = "transport error" THEN NetErr
    ELSE IF outcome = "404" THEN NoErr
    ELSE IF outcome = "500" THEN ApiErr
    ELSE NoErr

\* an apply<Kind> that does not look at the response's status
applyResourceIgnoringStatus(outcome) ==
    IF outcome = "transport error" THEN NetErr ELSE NoErr

\* apply<Kind>: the error the adapter returns
applyResource(outcome) ==
    IF outcome = "transport error" THEN NetErr
    ELSE IF outcome = "500" THEN ApiErr
    ELSE NoErr

\* applyISMPolicy wraps the policy: {"policy": <body>}
RequestDoc(k, doc) == IF k = "IndexStateManagement" THEN "{policy:" \o doc \o "}" ELSE doc

VARIABLES
    kind,      \* the record's kind (which reconciler handles it)
    rec,       \* the record in the API server: metadata and spec
    status,    \* the record's persisted status
    mem,       \* the worker's in-memory copy of the status
    remote,    \* the remote cluster: name -> document ("" : absent),
               \* for ClusterSettings: category -> set of setting keys
    r,         \* the Reconcile/Sync call in progress
    clock,     \* metav1.Now(), one tick per reconcile
    queue,     \* the work queue: a watch event or a requeue is pending
    faults,    \* Kubernetes API calls that have failed so far
    edits,     \* edits of the record so far
    prev,      \* observation: how the last finished attempt ended
    two        \* two records of one kind, each synced by a worker of its own

recVars == <<kind, rec, status, mem, remote, r, clock, queue, faults, edits, prev, password,
            two>>
vars == <<pool, nextId, g, returned, kind, rec, status, mem, remote, r, clock, queue,
          faults, edits, prev, password, two>>

\* the reconciler's worker
RW == 1

\* the frame of one Reconcile call.  path: which branch it took; result:
\* RequeueAfter in seconds; syncErr: the error of ParseDuration or Sync;
\* retErr: the error Reconcile returns; toDelete / toApply: what the loops
\* of Sync have still to visit; newApplied: the list Sync builds.
\* Observations of the attempt: before, the status fields SetReady writes as
\* they were when Reconcile read the record; delCalls / applyCalls, the
\* units the delete and apply adapters were called for; refused, a remote
\* call was answered with a failure; notFound, a delete was answered 404;
\* repeated, an adapter was called twice for one unit; lateDelete, a delete
\* was called after an apply
Before(st) == [appliedResources |-> st.appliedResources,
               lastSyncTime |-> st.lastSyncTime, targetCluster |-> st.targetCluster]
RIdle == [pc |-> "idle", path |-> "", inSync |-> FALSE, result |-> 0,
          syncErr |-> NoErr, retErr |-> NoErr,
          toDelete |-> {}, toApply |-> {}, newApplied |-> {},
          before |-> Before([appliedResources |-> {}, lastSyncTime |-> 0,
                             targetCluster |-> ""]),
          delCalls |-> {}, applyCalls |-> {}, refused |-> FALSE, notFound |-> FALSE,
          repeated |-> FALSE, lateDelete |-> FALSE]

Queue(event, requeue, after) == [event |-> event, requeue |-> requeue, after |-> after]

\* controller-runtime after Reconcile returned (result, err): an error is
\* requeued with backoff, RequeueAfter schedules the next attempt, else nothing
Requeue(result, err) ==
    IF err # NoErr THEN Queue(FALSE, "backoff", 0)
    ELSE IF result > 0 THEN Queue(FALSE, "after", result)
    ELSE Queue(FALSE, "none", 0)

UpdateErr == Err("status update failed", "", "")

\* the outcomes a Kubernetes API call may have in this state
ApiOK == IF faults < MaxFaults THEN BOOLEAN ELSE {TRUE}
Fault(ok) == IF ok THEN faults ELSE faults + 1

RecordInit(k) ==
    [exists : {TRUE}, deletionTimestamp : {FALSE}, finalizer : {FALSE},
     selector : RecordSelectors, syncInterval : SyncIntervals, resources : ResourcesOf(k)]

EmptyRemote(k) == IF k = "ClusterSettings" THEN [c \in Categories |-> {}]
                  ELSE [n \in Names |-> ""]

\* a cluster setting that no record declares: someone else has set it
Foreign == <<"f">>
\* the remote cluster when the record is created: for ClusterSettings each
\* category holds the foreign setting
InitialRemote(k) == IF k = "ClusterSettings" THEN [c \in Categories |-> {Foreign}]
                    ELSE EmptyRemote(k)

\* how an attempt ended: "ready", Sync(watch.Modified) went through and
\* SetReady's update was stored; "partial", every delete of step 4 succeeded
\* and an apply of step 5 was refused; "none", anything else.  With the
\* desired mapping of the attempt, the remote cluster after it ("ready") and
\* the applied list (after it for "ready", before it for "partial")
Prev(outcome, resources, rem, applied) ==
    [outcome |-> outcome, resources |-> resources, remote |-> rem, applied |-> applied]
NoPrev(k) == Prev("none", [n \in {} |-> FlatBody(TRUE, "")], EmptyRemote(k), {})
AttemptOutcome(k, frame, st, record, rem) ==
    IF frame.path = "normal" /\ frame.inSync /\ frame.syncErr = NoErr
        THEN Prev("ready", record.resources, rem, st.appliedResources)
    ELSE IF frame.path = "normal" /\ frame.inSync /\ frame.refused
            /\ frame.delCalls # {} /\ frame.toDelete = {}
        THEN Prev("partial", record.resources, EmptyRemote(k), frame.before.appliedResources)
    ELSE NoPrev(k)

\* one of two records of a flat-name kind with the Sync call on it: the
\* desired mapping, the stored status, the worker's copy of the status, and
\* the frame of Sync (err: what Sync returned; refused: a remote call of
\* the attempt was answered with a failure; before: appliedResources when
\* the attempt began)
TwoRecord(resources, st) ==
    [resources |-> resources, status |-> st, mem |-> st, pc |-> "idle",
     toDelete |-> {}, toApply |-> {}, newApplied |-> {}, err |-> NoErr,
     refused |-> FALSE, before |-> st.appliedResources]
NoRecords == [w \in Workers |-> TwoRecord(<< >>, EmptyStatus)]

PoolInit ==
    /\ pool = [k \in Keys |-> NoConn]
    /\ nextId = 1
    /\ g = [w \in Workers |-> GIdle]
    /\ returned = [k \in Keys |-> NoConn]

\* a record has just been created: the watch delivers it
Init ==
    /\ PoolInit
    /\ kind \in Kinds
    /\ rec \in RecordInit(kind)
    /\ status = EmptyStatus
    /\ mem = EmptyStatus
    /\ remote = InitialRemote(kind)
    /\ r = RIdle
    /\ clock = 0
    /\ queue = Queue(TRUE, "none", 0)
    /\ faults = 0
    /\ edits = 0
    /\ prev = NoPrev(kind)
    /\ password = 1
    /\ two = NoRecords

(* ------------------- ClusterSettings: setting keys --------------------- *)

\* fullKey := fmt.Sprintf("%s.%s", category, settingKey)
FullKey(category, settingKey) == category \o <<Dot>> \o settingKey

\* the loop that looks for the first '.', then "if dotIndex > 0" (0-based)
DotIndex(fullKey) ==
    LET dots == {i \in 1..Len(fullKey) : fullKey[i] = Dot}
    IN  IF dots = {} THEN 0 ELSE (CHOOSE i \in dots : \A j \in dots : i <= j) - 1
Splits(fullKey) == DotIndex(fullKey) > 0
SplitCategory(fullKey) == SubSeq(fullKey, 1, DotIndex(fullKey))
SplitSettingKey(fullKey) == SubSeq(fullKey, DotIndex(fullKey) + 2, Len(fullKey))

\* settingsToReset / settingsToResetByCategory: category -> []settingKey,
\* here the set of (category, keys) reset requests
Reset(category, keys) == [category |-> category, keys |-> keys]
ResetsByCategory(fullKeys) ==
    LET ok == {k \in fullKeys : Splits(k)}
    IN  {Reset(c, {SplitSettingKey(k) : k \in {x \in ok : SplitCategory(x) = c}})
            : c \in {SplitCategory(k) : k \in ok}}

\* desiredSettings: every category.settingKey of the spec
DesiredSettings(resources) ==
    UNION {{FullKey(c, k) : k \in resources[c].keys} : c \in DOMAIN resources}

(* ----------------------- what one attempt touches ----------------------- *)

\* a step 4 that deletes everything that is applied
ToRemoveAllApplied(k, appliedResources, resources) ==
    IF k = "ClusterSettings"
        THEN ResetsByCategory(appliedResources)
        ELSE appliedResources

\* Step 4 of Sync: what is applied and no longer desired
ToRemove(k, appliedResources, resources) ==
    IF k = "ClusterSettings"
        THEN ResetsByCategory(appliedResources \ DesiredSettings(resources))
        ELSE appliedResources \ DOMAIN resources

\* a deletion branch that deletes what the status lists as applied
DeletionUnitsFromApplied(k, appliedResources, resources) ==
    IF k = "ClusterSettings" THEN ResetsByCategory(appliedResources)
    ELSE appliedResources

\* a deletion branch that resets what the spec declares
DeletionUnitsFromSpec(k, appliedResources, resources) ==
    IF k = "ClusterSettings" THEN ResetsByCategory(DesiredSettings(resources))
    ELSE DOMAIN resources

\* the deletion branch of Sync: what it deletes
DeletionUnits(k, appliedResources, resources) ==
    IF k = "ClusterSettings" THEN ResetsByCategory(appliedResources)
    ELSE DOMAIN resources

\* is the unit there on the remote cluster (decides 200 or 404)
Present(k, rem, u) ==
    IF k = "ClusterSettings"
        THEN u.category \in DOMAIN rem /\ rem[u.category] \cap u.keys # {}
        ELSE rem[u] # ""

\* the remote cluster after a delete / reset call with this outcome
RemoteAfterDelete(k, rem, u, outcome) ==
    IF outcome # "200" THEN rem
    ELSE IF k = "ClusterSettings"
        THEN IF u.category \in DOMAIN rem
                THEN [rem EXCEPT ![u.category] = @ \ u.keys] ELSE rem
        ELSE [rem EXCEPT ![u] = ""]

\* the remote cluster after an apply call with this outcome
RemoteAfterApply(k, rem, n, body, outcome) ==
    IF outcome # "200" THEN rem
    ELSE IF k = "ClusterSettings" THEN [rem EXCEPT ![n] = @ \cup body.keys]
    ELSE [rem EXCEPT ![n] = RequestDoc(k, body.doc)]

\* a tracking that lists the category, not its settings
TrackedByCategory(k, n, body) == {n}

\* newApplied... = append(newApplied..., name) / one fullKey per setting
Tracked(k, n, body) ==
    IF k = "ClusterSettings" THEN {FullKey(n, s) : s \in body.keys} ELSE {n}

\* a failing branch that also empties the applied list
OnAdapterErrorForgettingApplied(k, st, text, err) ==
    [st EXCEPT !.appliedResources = {}]

\* what the failing branch of an adapter call does to the status: only the
\* ClusterSettings reconciler calls SetError there
OnAdapterError(k, st, text, err) ==
    IF k = "ClusterSettings" THEN SetError(st, text, err) ELSE st

\* Status().Update: the stored status after the call
Persist(ok, st, stored) == IF ok THEN st ELSE stored

(* ============================ Reconcile ================================ *)

\* Reconcile returns (result, err) to controller-runtime
Return(frame, result, err) ==
    [frame EXCEPT !.pc = "returned", !.result = result, !.retErr = err]

\* a deletion branch that calls Sync whether or not the finalizer is there
SyncsOnDeletionAlways(finalizer) == TRUE

\* Reconcile 3: Sync(watch.Deleted) is called if ContainsFinalizer
SyncsOnDeletion(finalizer) == finalizer

\* Reconcile, steps 1-4: read the record, take the deletion branch or make
\* sure the finalizer is on the record
ReconcileBegin ==
    /\ r.pc = "idle"
    /\ queue.event \/ queue.requeue # "none"
    /\ clock < MaxClock
    /\ clock' = clock + 1
    /\ mem' = status
    /\ UNCHANGED <<pool, nextId, returned, kind, prev, password, two, status, remote, edits>>
    /\ \E getOK \in ApiOK, ok \in ApiOK :
         LET begun == [RIdle EXCEPT !.pc = "begun", !.before = Before(status)] IN
         IF ~rec.exists
           THEN \* 2.1 not found: nothing to do
                /\ r' = Return([begun EXCEPT !.path = "gone"], 0, NoErr)
                /\ queue' = Requeue(0, NoErr)
                /\ UNCHANGED <<rec, g, faults>>
         ELSE IF ~getOK
           THEN \* 2.2 the read failed
                /\ r' = Return([begun EXCEPT !.path = "unread"], 0, Err("get failed", "", ""))
                /\ queue' = Requeue(0, Err("get failed", "", ""))
                /\ faults' = Fault(getOK)
                /\ UNCHANGED <<rec, g>>
         ELSE IF rec.deletionTimestamp
           THEN IF SyncsOnDeletion(rec.finalizer)
                  THEN \* 3.1 Sync(watch.Deleted): first the connection
                       /\ r' = [begun EXCEPT !.pc = "del_connect", !.path = "deletion"]
                       /\ g' = [g EXCEPT ![RW] =
                                  GStart(RW, DefaultedSelector(rec.selector, RecordNamespace))]
                       /\ queue' = Queue(FALSE, "none", 0)
                       /\ UNCHANGED <<rec, faults>>
                  ELSE /\ r' = Return([begun EXCEPT !.path = "deletion"], 0, NoErr)
                       /\ queue' = Requeue(0, NoErr)
                       /\ UNCHANGED <<rec, g, faults>>
         ELSE IF rec.finalizer \/ ok
           THEN \* 4. the finalizer is (now) on the record
                /\ rec' = [rec EXCEPT !.finalizer = TRUE]
                /\ r' = [begun EXCEPT !.pc = "schedule", !.path = "normal"]
                /\ queue' = Queue(FALSE, "none", 0)
                /\ UNCHANGED <<g, faults>>
           ELSE \* 4. adding the finalizer failed
                /\ r' = Return([begun EXCEPT !.path = "normal"], 0, UpdateErr)
                /\ queue' = Requeue(0, UpdateErr)
                /\ faults' = Fault(ok)
                /\ UNCHANGED <<rec, g>>

\* Reconcile, step 6, and the first lines of Sync(watch.Modified):
\* parse the interval, SetSyncing, ask the pool for the connection
ReconcileSchedule ==
    /\ r.pc = "schedule"
    /\ UNCHANGED <<pool, nextId, returned, kind, prev, password, two, rec, remote, clock, queue, edits>>
    /\ LET syncInterval == IF rec.syncInterval = "" THEN DefaultSyncInterval
                           ELSE rec.syncInterval
           parsed == ParseDuration(syncInterval)
       IN  IF parsed.err # NoErr
             THEN /\ r' = [r EXCEPT !.pc = "finish", !.syncErr = parsed.err]
                  /\ UNCHANGED <<g, mem, status, faults>>
             ELSE /\ r' = [r EXCEPT !.pc = "connect", !.result = parsed.seconds,
                                    !.inSync = TRUE]
                  /\ mem' = SetSyncing(mem)
                  /\ \E ok \in ApiOK : /\ status' = Persist(ok, mem', status)
                                        /\ faults' = Fault(ok)
                  /\ g' = [g EXCEPT ![RW] =
                             GStart(RW, DefaultedSelector(rec.selector, RecordNamespace))]

(* ======================= Sync(watch.Modified) ========================== *)

DialectErr == Err("ISM is only available in OpenSearch", "", "")
UnmarshalErr == Err("json: cannot unmarshal into map", "", "")

Failure(text, err) == [text |-> text, err |-> err]
NoFailure == Failure("", NoErr)

\* steps 1-3 without the check of the cluster type
EarlyFailureWithoutDialectGate(k, call, resources) ==
    IF call.err # NoErr THEN Failure("failed to connect", call.err)
    ELSE IF k = "ClusterSettings" /\ \E c \in DOMAIN resources : ~resources[c].object
        THEN Failure("failed to unmarshal settings", UnmarshalErr)
    ELSE NoFailure

\* Steps 1-3 of Sync: what makes it stop with SetError before any remote
\* call: no connection, (ISM) an Elasticsearch cluster, (ClusterSettings) a
\* category whose value is no JSON object
EarlyFailure(k, call, resources) ==
    IF call.err # NoErr THEN Failure("failed to connect", call.err)
    ELSE IF k = "IndexStateManagement" /\ call.conn.ClusterType = "elasticsearch"
        THEN Failure("incompatible cluster type", DialectErr)
    ELSE IF k = "ClusterSettings" /\ \E c \in DOMAIN resources : ~resources[c].object
        THEN Failure("failed to unmarshal settings", UnmarshalErr)
    ELSE NoFailure

\* Steps 1-3: the pool answered
SyncConnected ==
    /\ r.pc = "connect"
    /\ g[RW].pc = "done"
    /\ g' = [g EXCEPT ![RW] = GIdle]
    /\ UNCHANGED <<pool, nextId, returned, kind, prev, password, two, rec, remote, clock, queue, edits>>
    /\ LET f == EarlyFailure(kind, g[RW], rec.resources) IN
       IF f.err # NoErr
         THEN /\ mem' = SetError(mem, f.text, f.err)
              /\ \E ok \in ApiOK : /\ status' = Persist(ok, mem', status)
                                    /\ faults' = Fault(ok)
              /\ r' = [r EXCEPT !.pc = "finish", !.syncErr = f.err]
         ELSE /\ r' = [r EXCEPT !.pc = "syncing",
                                !.toDelete = ToRemove(kind, mem.appliedResources, rec.resources),
                                !.toApply = DOMAIN rec.resources]
              /\ UNCHANGED <<mem, status, faults>>

\* Steps 4-6 in the order Sync runs them: the delete loop, then the apply
\* loop, then SetReady
SyncStepApplyFirst(toDelete, toApply) ==
    IF toApply # {} THEN "apply" ELSE IF toDelete # {} THEN "delete" ELSE "ready"

SyncStep(toDelete, toApply) ==
    IF toDelete # {} THEN "delete" ELSE IF toApply # {} THEN "apply" ELSE "ready"

\* the observations after an adapter call
Called(frame, op, u, outcome) ==
    [frame EXCEPT
        !.delCalls = IF op = "delete" THEN @ \cup {u} ELSE @,
        !.applyCalls = IF op = "apply" THEN @ \cup {u} ELSE @,
        !.refused = @ \/ outcome \in {"500", "transport error"},
        !.notFound = @ \/ (op = "delete" /\ outcome = "404"),
        !.repeated = @ \/ (op = "delete" /\ u \in frame.delCalls)
                       \/ (op = "apply" /\ u \in frame.applyCalls),
        !.lateDelete = @ \/ (op = "delete" /\ frame.applyCalls # {})]

\* Step 4: one delete (reset) call
SyncDelete ==
    /\ r.pc = "syncing"
    /\ SyncStep(r.toDelete, r.toApply) = "delete"
    /\ UNCHANGED <<pool, nextId, returned, g, kind, prev, password, two, rec, clock, queue, edits>>
    /\ \E u \in r.toDelete :
       \E outcome \in DeleteOutcomes(Present(kind, remote, u)) :
       \E ok \in ApiOK :
         LET err == deleteResource(outcome)
             persists == err # NoErr /\ kind = "ClusterSettings"
             called == Called(r, "delete", u, outcome)
         IN
         /\ remote' = RemoteAfterDelete(kind, remote, u, outcome)
         /\ faults' = IF persists THEN Fault(ok) ELSE faults
         /\ IF err # NoErr
              THEN /\ mem' = OnAdapterError(kind, mem, "failed to reset cluster settings", err)
                   /\ status' = IF persists THEN Persist(ok, mem', status) ELSE status
                   /\ r' = [called EXCEPT !.pc = "finish", !.syncErr = err]
              ELSE /\ r' = [called EXCEPT !.toDelete = @ \ {u}]
                   /\ UNCHANGED <<mem, status>>

\* the target cluster SetReady records (the SnapshotLifecyclePolicy Sync
\* passes none)
TargetClusterFor(k, st, sel) ==
    IF k = "SnapshotLifecyclePolicy" THEN st.targetCluster ELSE TargetCluster(sel)

\* Steps 5 and 6: one apply call, or SetReady when none is left
SyncApply ==
    /\ r.pc = "syncing"
    /\ SyncStep(r.toDelete, r.toApply) \in {"apply", "ready"}
    /\ UNCHANGED <<pool, nextId, returned, g, kind, prev, password, two, rec, clock, queue, edits>>
    /\ IF SyncStep(r.toDelete, r.toApply) = "ready"
         THEN /\ mem' = SetReady(mem,
                          TargetClusterFor(kind, mem,
                              DefaultedSelector(rec.selector, RecordNamespace)),
                          r.newApplied, clock)
              /\ remote' = remote
              /\ \E ok \in ApiOK :
                   /\ status' = Persist(ok, mem', status)
                   /\ faults' = Fault(ok)
                   /\ r' = [r EXCEPT !.pc = "finish",
                                     !.syncErr = IF ok THEN NoErr ELSE UpdateErr]
         ELSE \E n \in r.toApply :
              \E outcome \in ApplyOutcomes :
              \E ok \in ApiOK :
                LET body == rec.resources[n]
                    err == IF ~body.object THEN UnmarshalErr ELSE applyResource(outcome)
                    persists == err # NoErr /\ kind = "ClusterSettings"
                    called == IF ~body.object THEN r ELSE Called(r, "apply", n, outcome)
                IN
                /\ remote' = IF ~body.object THEN remote
                             ELSE RemoteAfterApply(kind, remote, n, body, outcome)
                /\ faults' = IF persists THEN Fault(ok) ELSE faults
                /\ IF err # NoErr
                     THEN /\ mem' = OnAdapterError(kind, mem, "failed to apply cluster settings", err)
                          /\ status' = IF persists THEN Persist(ok, mem', status) ELSE status
                          /\ r' = [called EXCEPT !.pc = "finish", !.syncErr = err]
                     ELSE /\ r' = [called EXCEPT !.toApply = @ \ {n},
                                            !.newApplied = @ \cup Tracked(kind, n, body)]
                          /\ UNCHANGED <<mem, status>>

\* a Reconcile that returns the error of Sync when there is one
ReturnedErrOfSync(syncErr, updateErr) ==
    IF syncErr # NoErr THEN syncErr ELSE updateErr

\* the deferred function: err = r.Status().Update(...) overwrites the named
\* result, whatever the return statement had put there
ReturnedErr(syncErr, updateErr) == updateErr

\* Reconcile, steps 7-8 and the deferred Status().Update: the condition
\* for the outcome of Sync, then the named result err is overwritten by
\* the outcome of the status update
ReconcileFinish ==
    /\ r.pc = "finish"
    /\ UNCHANGED <<pool, nextId, returned, g, kind, prev, password, two, rec, remote, clock, edits>>
    /\ mem' = IF ~r.inSync THEN mem
              ELSE IF r.syncErr # NoErr THEN UpdateConditionKubernetesApiCallFailure(mem)
              ELSE UpdateConditionSuccess(mem)
    /\ \E ok \in ApiOK :
         LET err == ReturnedErr(r.syncErr, IF ok THEN NoErr ELSE UpdateErr) IN
         /\ status' = Persist(ok, mem', status)
         /\ faults' = Fault(ok)
         /\ r' = Return(r, r.result, err)
         /\ queue' = Requeue(r.result, err)

\* the worker is free again
ReconcileDone ==
    /\ r.pc = "returned"
    /\ r' = RIdle
    /\ mem' = EmptyStatus
    /\ prev' = AttemptOutcome(kind, r, mem, rec, remote)
    /\ UNCHANGED <<pool, nextId, returned, g, kind, password, two, rec, status, remote, clock, queue,
                   faults, edits>>

(* ======================== Sync(watch.Deleted) ========================== *)

\* a deletion branch that reports its failure in the status
OnDeletionErrorSetError(k, st, err) == SetError(st, "failed to delete", err)

\* the failing branches of Sync(watch.Deleted): log and return err, the
\* status is not touched
OnDeletionError(k, st, err) == st

\* the deletion branch of Sync: the pool answered
DelConnected ==
    /\ r.pc = "del_connect"
    /\ g[RW].pc = "done"
    /\ g' = [g EXCEPT ![RW] = GIdle]
    /\ mem' = IF g[RW].err # NoErr THEN OnDeletionError(kind, mem, g[RW].err) ELSE mem
    /\ r' = IF g[RW].err # NoErr
              THEN [r EXCEPT !.pc = "del_finish", !.syncErr = g[RW].err]
              ELSE [r EXCEPT !.pc = "del_deleting",
                             !.toDelete = DeletionUnits(kind, mem.appliedResources, rec.resources)]
    /\ UNCHANGED <<pool, nextId, returned, kind, prev, password, two, rec, status, remote, clock, queue,
                   faults, edits>>

\* the deletion branch of Sync: one delete (reset) call; returns at the
\* first error and when nothing is left
DelDelete ==
    /\ r.pc = "del_deleting"
    /\ UNCHANGED <<pool, nextId, returned, g, kind, prev, password, two, rec, status, clock, queue,
                   faults, edits>>
    /\ IF r.toDelete = {}
         THEN /\ r' = [r EXCEPT !.pc = "del_finish"]
              /\ remote' = remote
              /\ mem' = mem
         ELSE \E u \in r.toDelete :
              \E outcome \in DeleteOutcomes(Present(kind, remote, u)) :
                LET err == deleteResource(outcome)
                    called == Called(r, "delete", u, outcome)
                IN
                /\ remote' = RemoteAfterDelete(kind, remote, u, outcome)
                /\ mem' = IF err # NoErr THEN OnDeletionError(kind, mem, err) ELSE mem
                /\ r' = IF err # NoErr
                          THEN [called EXCEPT !.pc = "del_finish", !.syncErr = err]
                          ELSE [called EXCEPT !.toDelete = @ \ {u}]

\* Reconcile 3.1, after Sync: is the finalizer taken off when Sync returned
\* this error (the code overwrites err without looking at it)
RemovesFinalizer(syncErr) == TRUE

\* a deletion branch that returns the error of Sync
DeletionReturnSyncErr(syncErr) == [result |-> 0, err |-> syncErr]

\* Reconcile 3: result = ctrl.Result{}; err = nil; return result, err
DeletionReturn(syncErr) == [result |-> 0, err |-> NoErr]

\* Reconcile 3.1, after Sync: RemoveFinalizer, Update, return no error.  A
\* record marked for deletion that has no finalizer left is purged, and the
\* watch reports the deletion.
DelFinish ==
    /\ r.pc = "del_finish"
    /\ UNCHANGED <<pool, nextId, returned, g, kind, prev, password, two, status, mem, remote, clock, edits>>
    /\ r' = Return(r, DeletionReturn(r.syncErr).result, DeletionReturn(r.syncErr).err)
    /\ \E ok \in ApiOK :
         /\ faults' = IF RemovesFinalizer(r.syncErr) THEN Fault(ok) ELSE faults
         /\ IF ok /\ RemovesFinalizer(r.syncErr)
              THEN /\ rec' = [rec EXCEPT !.finalizer = FALSE, !.exists = FALSE]
                   /\ queue' = [Requeue(DeletionReturn(r.syncErr).result,
                                        DeletionReturn(r.syncErr).err)
                                    EXCEPT !.event = TRUE]
              ELSE /\ rec' = rec
                   /\ queue' = Requeue(DeletionReturn(r.syncErr).result,
                                       DeletionReturn(r.syncErr).err)

(* ============================== the user =============================== *)

\* kubectl apply with other resources: the generation changes
UserEdit ==
    /\ r.pc = "idle"
    /\ rec.exists /\ ~rec.deletionTimestamp
    /\ edits < MaxEdits
    /\ edits' = edits + 1
    /\ \E res \in ResourcesOf(kind) \ {rec.resources} :
         rec' = [rec EXCEPT !.resources = res]
    /\ queue' = [queue EXCEPT !.event = TRUE]
    /\ UNCHANGED <<pool, nextId, returned, g, kind, prev, password, two, status, mem, remote, r, clock, faults>>

\* kubectl delete: with a finalizer the record is only marked; without the
\* reconciler's finalizer it is gone at once, or it is marked and held by a
\* finalizer of someone else (foreground deletion)
UserDelete ==
    /\ r.pc = "idle"
    /\ rec.exists /\ ~rec.deletionTimestamp
    /\ \E held \in BOOLEAN :
          rec' = IF rec.finalizer \/ held THEN [rec EXCEPT !.deletionTimestamp = TRUE]
                 ELSE [rec EXCEPT !.exists = FALSE]
    /\ queue' = [queue EXCEPT !.event = TRUE]
    /\ UNCHANGED <<pool, nextId, returned, g, kind, prev, password, two, status, mem, remote, r, clock,
                   faults, edits>>

(* ========================= the specification =========================== *)

Connect == GetOrCreateElasticsearchConnection(RW, RecordEnvs) /\ UNCHANGED recVars

Next ==
    \/ ReconcileBegin \/ ReconcileSchedule \/ Connect \/ SyncConnected
    \/ SyncDelete \/ SyncApply \/ ReconcileFinish \/ ReconcileDone
    \/ DelConnected \/ DelDelete \/ DelFinish
    \/ UserEdit \/ UserDelete

Spec == Init /\ [][Next]_vars

(* ============== the pool alone, called by several workers ============== *)

\* The reconcilers of the five kinds run in goroutines of their own and
\* share one pool; here the workers only call the pool, for any selector.
\* (Nothing in the operator calls ElasticsearchConnectionsStore.Delete.)
PoolCall ==
    /\ \E w \in Workers, sel \in Selectors :
          /\ g[w].pc = "idle"
          /\ g' = [g EXCEPT ![w] = GStart(w, sel)]
    /\ UNCHANGED <<pool, nextId, returned>>
    /\ UNCHANGED recVars

PoolLookup == (\E w \in Workers : GLookup(w)) /\ UNCHANGED recVars
PoolBuild == (\E w \in Workers : GBuild(w, Envs)) /\ UNCHANGED recVars
PoolStore == (\E w \in Workers : GStore(w)) /\ UNCHANGED recVars

\* the caller has its answer
PoolReturn ==
    /\ \E w \in Workers :
          /\ g[w].pc = "done"
          /\ g' = [g EXCEPT ![w] = GIdle]
    /\ UNCHANGED <<pool, nextId, returned>>
    /\ UNCHANGED recVars

PoolOnlyInit ==
    /\ PoolInit
    /\ kind = "IndexTemplate"
    /\ rec = [exists |-> FALSE, deletionTimestamp |-> FALSE, finalizer |-> FALSE,
              selector |-> SelAuto, syncInterval |-> "", resources |-> << >>]
    /\ status = EmptyStatus
    /\ mem = EmptyStatus
    /\ remote = EmptyRemote(kind)
    /\ r = RIdle
    /\ clock = 0
    /\ queue = Queue(FALSE, "none", 0)
    /\ faults = 0
    /\ edits = 0
    /\ prev = NoPrev(kind)
    /\ password = 1
    /\ two = NoRecords

\* the password in the credentials secret is changed
SecretRotate ==
    /\ password <= MaxRotations
    /\ password' = password + 1
    /\ UNCHANGED <<pool, nextId, g, returned, kind, rec, status, mem, remote, r, clock,
                   queue, faults, edits, prev, two>>

PoolNext == PoolCall \/ PoolLookup \/ PoolBuild \/ PoolStore \/ PoolReturn \/ SecretRotate

SpecPool == PoolOnlyInit /\ [][PoolNext]_vars

(* ========== two records of one kind on the same cluster ================ *)

\* Two SnapshotRepository records with the same selector, each reconciled
\* by a worker of its own; the workers share the pool and the remote
\* cluster.  One Sync(watch.Modified) per record.
TwoSelector == DefaultedSelector([SelManualNoCA EXCEPT !.Namespace = ""], RecordNamespace)

\* the status a record has after its last successful sync applied these names
StatusAfter(applied) ==
    IF applied = {} THEN EmptyStatus
    ELSE SetReady(EmptyStatus, TargetCluster(TwoSelector), applied, 0)

TwoInit ==
    /\ PoolInit
    /\ kind = "SnapshotRepository"
    /\ rec = [exists |-> FALSE, deletionTimestamp |-> FALSE, finalizer |-> FALSE,
              selector |-> SelAuto, syncInterval |-> "", resources |-> << >>]
    /\ status = EmptyStatus
    /\ mem = EmptyStatus
    /\ r = RIdle
    /\ clock = 0
    /\ queue = Queue(FALSE, "none", 0)
    /\ faults = 0
    /\ edits = 0
    /\ prev = NoPrev(kind)
    /\ password = 1
    /\ two \in [Workers -> {TwoRecord(res, StatusAfter(applied)) :
                                res \in Maps(Names, {FlatBody(TRUE, "{v1}")}), applied \in SUBSET Names}]
    /\ remote = [n \in Names |->
                    IF \E w \in Workers : n \in two[w].status.appliedResources
                        THEN RequestDoc(kind, "{v1}") ELSE ""]

\* Sync, first lines: SetSyncing, then the call of the pool
TwoBegin ==
    \E w \in Workers :
    /\ two[w].pc = "idle"
    /\ g[w].pc = "idle"
    /\ g' = [g EXCEPT ![w] = GStart(w, TwoSelector)]
    /\ \E ok \in ApiOK :
          LET m == SetSyncing(two[w].mem) IN
          /\ two' = [two EXCEPT ![w].pc = "connect", ![w].mem = m,
                                ![w].status = Persist(ok, m, two[w].status)]
          /\ faults' = Fault(ok)
    /\ UNCHANGED <<pool, nextId, returned, kind, prev, password, rec, status, mem, remote, r,
                   clock, queue, edits>>

\* GetOrCreateElasticsearchConnection, called by the two workers
TwoConnect ==
    /\ \E w \in Workers : two[w].pc = "connect" /\ GetOrCreateElasticsearchConnection(w, RecordEnvs)
    /\ UNCHANGED recVars

\* Steps 1-3: the pool answered
TwoConnected ==
    \E w \in Workers :
    /\ two[w].pc = "connect"
    /\ g[w].pc = "done"
    /\ g' = [g EXCEPT ![w] = GIdle]
    /\ LET f == EarlyFailure(kind, g[w], two[w].resources) IN
       IF f.err # NoErr
         THEN \E ok \in ApiOK :
                LET m == SetError(two[w].mem, f.text, f.err) IN
                /\ two' = [two EXCEPT ![w].pc = "done", ![w].err = f.err, ![w].mem = m,
                                      ![w].status = Persist(ok, m, two[w].status)]
                /\ faults' = Fault(ok)
         ELSE /\ two' = [two EXCEPT
                           ![w].pc = "syncing",
                           ![w].toDelete = ToRemove(kind, two[w].mem.appliedResources,
                                                    two[w].resources),
                           ![w].toApply = DOMAIN two[w].resources]
              /\ faults' = faults
    /\ UNCHANGED <<pool, nextId, returned, kind, prev, password, rec, status, mem, remote, r,
                   clock, queue, edits>>

\* Step 4: one delete call of worker w
TwoDelete ==
    \E w \in Workers :
    /\ two[w].pc = "syncing"
    /\ SyncStep(two[w].toDelete, two[w].toApply) = "delete"
    /\ \E u \in two[w].toDelete :
       \E outcome \in DeleteOutcomes(Present(kind, remote, u)) :
         LET err == deleteResource(outcome) IN
         /\ remote' = RemoteAfterDelete(kind, remote, u, outcome)
         /\ two' = IF err # NoErr
                      THEN [two EXCEPT ![w].pc = "done", ![w].err = err,
                                       ![w].mem = OnAdapterError(kind, two[w].mem, "", err),
                                       ![w].refused = TRUE]
                      ELSE [two EXCEPT ![w].toDelete = @ \ {u}]
    /\ UNCHANGED <<pool, nextId, returned, g, kind, prev, password, rec, status, mem, r,
                   clock, queue, faults, edits>>

\* Steps 5 and 6: one apply call of worker w, or SetReady when none is left
TwoApply ==
    \E w \in Workers :
    /\ two[w].pc = "syncing"
    /\ SyncStep(two[w].toDelete, two[w].toApply) \in {"apply", "ready"}
    /\ IF SyncStep(two[w].toDelete, two[w].toApply) = "ready"
         THEN \E ok \in ApiOK :
                LET m == SetReady(two[w].mem, TargetClusterFor(kind, two[w].mem, TwoSelector),
                                  two[w].newApplied, 1)
                IN
                /\ two' = [two EXCEPT ![w].pc = "done", ![w].mem = m,
                                      ![w].status = Persist(ok, m, two[w].status),
                                      ![w].err = IF ok THEN NoErr ELSE UpdateErr]
                /\ faults' = Fault(ok)
                /\ remote' = remote
         ELSE \E n \in two[w].toApply :
              \E outcome \in ApplyOutcomes :
                LET body == two[w].resources[n]
                    err == applyResource(outcome)
                IN
                /\ remote' = RemoteAfterApply(kind, remote, n, body, outcome)
                /\ faults' = faults
                /\ two' = IF err # NoErr
                             THEN [two EXCEPT ![w].pc = "done", ![w].err = err,
                                              ![w].mem = OnAdapterError(kind, two[w].mem, "", err),
                                              ![w].refused = TRUE]
                             ELSE [two EXCEPT ![w].toApply = @ \ {n},
                                              ![w].newApplied = @ \cup Tracked(kind, n, body)]
    /\ UNCHANGED <<pool, nextId, returned, g, kind, prev, password, rec, status, mem, r,
                   clock, queue, edits>>

TwoNext == TwoBegin \/ TwoConnect \/ TwoConnected \/ TwoDelete \/ TwoApply

SpecTwo == TwoInit /\ [][TwoNext]_vars

(* ============================ properties =============================== *)

\* Reconcile has returned from the normal branch (record neither gone nor
\* marked for deletion) / from the deletion branch
NormalReturned == r.pc = "returned" /\ r.path = "normal"
DeletionReturned == r.pc = "returned" /\ r.path = "deletion"
\* ... and it had entered Sync(watch.Modified)
SyncReturned == NormalReturned /\ r.inSync

\* the interval Reconcile parses
IntervalOf(record) ==
    IF record.syncInterval = "" THEN DefaultSyncInterval ELSE record.syncInterval

\* an entry of appliedResources is not on the remote cluster
Gone(k, rem, n) ==
    IF k = "ClusterSettings"
        THEN ~Splits(n) \/ SplitSettingKey(n) \notin rem[SplitCategory(n)]
        ELSE rem[n] = ""

\* C1: for the flat-name kinds (IndexTemplate, SnapshotRepository,
\* SnapshotLifecyclePolicy, IndexStateManagement), whenever a normal sync
\* attempt ends with the phase Ready it recorded, appliedResources, as a
\* set, is exactly the set of keys of the desired mapping.
C1_ReadyTracksDesired ==
    (SyncReturned /\ kind \in FlatKinds /\ mem.phase = PhaseReady)
        => mem.appliedResources = DOMAIN rec.resources

C1_Witness ==
    /\ SyncReturned /\ kind \in FlatKinds /\ mem.phase = PhaseReady
    /\ status = mem
    /\ mem.appliedResources = Names
    /\ \A n \in Names : remote[n] # ""

\* C2: for every kind, an error returned by an adapter delete or apply
\* call ends the attempt with phase Error and a message that carries the
\* remote status and body of the failed call.
C2_AdapterErrorEndsInError ==
    (SyncReturned /\ r.syncErr = ApiErr)
        => /\ mem.phase = PhaseError
           /\ mem.message.err.status = ApiErr.status
           /\ mem.message.err.body = ApiErr.body

\* C3: the deletion path takes the finalizer off only if the connection
\* was resolved and every adapter delete succeeded; after a failed pass the
\* finalizer is still on the record and the deletion is retried.
C3_FinalizerKeptOnFailedDeletion ==
    (DeletionReturned /\ r.syncErr # NoErr)
        => rec.exists /\ rec.finalizer /\ queue.requeue # "none"

\* C4: when several callers ask for the same uncached key concurrently,
\* every successful call returns the same connection, and the entry stored
\* for the key is never overwritten by a later store.
C4_OneConnectionPerKey ==
    /\ \A k \in Keys : returned[k] # NoConn => pool[k] = returned[k]
    /\ \A w \in Workers :
          (g[w].pc = "done" /\ g[w].err = NoErr) => g[w].conn = returned[g[w].key]

\* C5: once a getOrCreate for a key has succeeded, every later getOrCreate
\* for that key (nothing deletes the key) returns the identical connection
\* object, without fetching credentials and without probing the cluster.
C5_LaterCallsHitTheCache ==
    \A w \in Workers :
        (g[w].pc = "done" /\ g[w].seen # NoConn)
            => /\ g[w].err = NoErr
               /\ g[w].conn = g[w].seen
               /\ ~g[w].fetched /\ ~g[w].probed

\* C6: when a step of the connection creation fails, the call returns an
\* error and no connection, the pool's map is left as it was (so the call
\* adds no entry for the key), and a call that finds no entry for its key
\* goes through the whole creation again.
C6_FailedCreationCachesNothing ==
    [][\A w \in Workers :
         /\ (g[w].pc = "build" /\ g'[w].pc # "build" /\ g'[w].failed)
               => /\ g'[w].pc = "done"
                  /\ g'[w].err # NoErr
                  /\ g'[w].conn = NoConn
                  /\ pool' = pool
         /\ (g[w].pc = "lookup" /\ g'[w].pc # "lookup" /\ ~StoreHas(pool, g[w].key))
               => g'[w].pc = "build"
         /\ (g[w].pc = "build" /\ g'[w].pc = "store")
               => g'[w].fetched /\ g'[w].probed]_vars

C6_Witness ==
    \E w \in Workers :
        /\ g[w].pc = "done" /\ g[w].failed /\ g[w].probed
        /\ g[w].err # NoErr /\ g[w].conn = NoConn
        /\ pool[g[w].key] = NoConn

\* C7: when a record is deleted, every name in its last-applied list has
\* been removed from the remote cluster before the record is released, the
\* names that are no longer in the desired mapping included.
C7_DeletionRemovesLastApplied ==
    (DeletionReturned /\ ~rec.exists /\ r.syncErr = NoErr)
        => \A n \in status.appliedResources : Gone(kind, remote, n)

\* C8: at the end of every normal sync attempt the persisted phase is
\* Ready or Error, never still Syncing.
C8_AttemptEndsReadyOrError ==
    (SyncReturned /\ r.retErr = NoErr) => status.phase \in {PhaseReady, PhaseError}

\* C9: no stuck state: after every failed attempt (connection, delete,
\* apply or unparseable interval) of a record that is not being deleted,
\* another attempt is scheduled without any edit of the record.
C9_FailedAttemptIsRetried ==
    (NormalReturned /\ r.syncErr # NoErr) => queue.requeue # "none"

\* C10: an unparseable resyncInterval makes the attempt fail, and the
\* failure is surfaced in the status as phase Error.
C10_BadIntervalSurfaced ==
    (NormalReturned /\ ParseDuration(IntervalOf(rec)).err # NoErr /\ r.retErr = NoErr)
        => status.phase = PhaseError

\* the connection of the record's cluster is in the pool
Connected(record) ==
    pool[ClusterKey(DefaultedSelector(record.selector, RecordNamespace))] # NoConn

\* Sync(watch.Modified) stopped before SetReady: no connection, wrong
\* dialect, a body that is no JSON object, or a refused delete or apply
FailedBeforeReady == SyncReturned /\ r.syncErr \notin {NoErr, UpdateErr}

\* C11: after every reconcile attempt of a record that is not marked for
\* deletion, the next attempt is scheduled after the record's resync
\* interval; the interval is 10 seconds when it is unset and also when it
\* does not parse.
C11_NextSyncAfterInterval ==
    (NormalReturned /\ r.retErr = NoErr)
        => /\ queue.requeue = "after"
           /\ queue.after = IF ParseDuration(IntervalOf(rec)).err = NoErr
                               THEN ParseDuration(IntervalOf(rec)).seconds
                               ELSE ParseDuration(DefaultSyncInterval).seconds

C13_ReadyOnlyAfterAllCallsSucceeded ==
    (SyncReturned /\ mem.phase = PhaseReady)
        => /\ Connected(rec)
           /\ ~r.refused
           /\ r.delCalls = ToRemove(kind, r.before.appliedResources, rec.resources)
           /\ r.applyCalls = DOMAIN rec.resources

C13_Witness ==
    /\ SyncReturned /\ mem.phase = PhaseReady /\ status.phase = PhaseReady
    /\ r.delCalls # {} /\ r.applyCalls # {} /\ ~r.refused

\* the appliedResources entries a delete (reset) unit stands for
UnitNames(k, u) ==
    IF k = "ClusterSettings" THEN {FullKey(u.category, s) : s \in u.keys} ELSE {u}

\* the units whose delete call of this attempt succeeded (the loop leaves
\* the unit of a failed call unvisited)
DeletedOK == r.delCalls \ r.toDelete

\* C14: after a partial failure every name left in appliedResources is
\* present on the remote cluster, and a name whose delete succeeded in the
\* failed attempt is not listed as applied afterwards.
C14_AppliedListConfirmedPresent ==
    FailedBeforeReady
        => /\ \A n \in status.appliedResources : ~Gone(kind, remote, n)
           /\ \A u \in DeletedOK : UnitNames(kind, u) \cap status.appliedResources = {}

\* C14 as amended: after a partial failure appliedResources is still the
\* list of the last successful attempt, so a name whose delete succeeded in
\* the failed attempt is still listed although it is gone from the remote
\* cluster.
C14_DeletedNamesStayListed ==
    FailedBeforeReady
        => \A u \in DeletedOK : \A n \in UnitNames(kind, u) :
              n \in status.appliedResources /\ Gone(kind, remote, n)

C14_Witness ==
    /\ FailedBeforeReady /\ DeletedOK # {} /\ r.applyCalls # {} /\ r.refused
    /\ \E u \in DeletedOK : UnitNames(kind, u) \subseteq status.appliedResources

\* the pool's connection for the record's cluster
ConnectionOf(record) ==
    pool[ClusterKey(DefaultedSelector(record.selector, RecordNamespace))]

Desired(k, resources) ==
    IF k = "ClusterSettings" THEN DesiredSettings(resources) ELSE DOMAIN resources

\* C17: after a fully successful normal sync no name that was applied and
\* not desired when the attempt began is on the remote cluster.
C17_RemovedNamesAreGone ==
    (SyncReturned /\ mem.phase = PhaseReady)
        => \A n \in r.before.appliedResources \ Desired(kind, rec.resources) :
              Gone(kind, remote, n)

C17_Witness ==
    /\ SyncReturned /\ mem.phase = PhaseReady /\ r.syncErr = NoErr
    /\ r.before.appliedResources \ Desired(kind, rec.resources) # {}
    /\ DeletedOK # {} /\ ~r.notFound

\* C18: in a fully successful sync of a flat-name kind, delete is called
\* for exactly lastApplied minus the keys of the desired mapping, apply is
\* called for exactly the keys of the desired mapping, and no name is
\* visited twice.
C18_ExactCalls ==
    (SyncReturned /\ kind \in FlatKinds /\ mem.phase = PhaseReady)
        => /\ r.delCalls = r.before.appliedResources \ DOMAIN rec.resources
           /\ r.applyCalls = DOMAIN rec.resources
           /\ ~r.repeated

C18_Witness ==
    /\ SyncReturned /\ kind \in FlatKinds /\ mem.phase = PhaseReady
    /\ r.before.appliedResources = Names
    /\ Cardinality(r.delCalls) = 1 /\ Cardinality(r.applyCalls) = 1
    /\ r.delCalls \cap r.applyCalls = {}

\* C19: within one normal sync attempt every delete call comes before the
\* first apply call: no delete is made once an apply has been made.
C19_DeletesBeforeApplies ==
    [][(r'.path = "normal" /\ r'.delCalls # r.delCalls) => r.applyCalls = {}]_vars

C19_Witness ==
    /\ r.pc = "syncing" /\ r.path = "normal"
    /\ r.delCalls # {} /\ r.applyCalls # {} /\ r.toApply # {}
    /\ ~r.lateDelete

\* C20: for every kind, a delete of a name that is not on the remote
\* cluster (the cluster answers not found) returns no error, so a sync or
\* deletion pass whose names to remove are absent goes through: the
\* deletion pass ends without error, the normal sync ends Ready.
C20_NotFoundIsSuccess ==
    (r.notFound /\ ~r.refused)
        => /\ r.syncErr \notin {ApiErr, NetErr}
           /\ DeletionReturned => (r.syncErr = NoErr /\ r.toDelete = {})
           /\ (SyncReturned /\ \A n \in DOMAIN rec.resources : rec.resources[n].object)
                 => (mem.phase = PhaseReady /\ r.toDelete = {})

C20_Witness ==
    /\ DeletionReturned /\ r.notFound /\ ~r.refused
    /\ r.delCalls # {} /\ r.syncErr = NoErr /\ ~rec.exists

\* Sync(watch.Modified) went through and SetReady's update was stored
FullySuccessful == SyncReturned /\ r.syncErr = NoErr

\* C21: of two consecutive fully successful sync attempts of a record with
\* the same desired mapping, the second leaves the remote cluster and
\* appliedResources as the first left them and makes no delete call.
C21_SecondSyncChangesNothing ==
    (FullySuccessful /\ prev.outcome = "ready" /\ prev.resources = rec.resources)
        => /\ remote = prev.remote
           /\ mem.appliedResources = prev.applied
           /\ status.appliedResources = prev.applied
           /\ r.delCalls = {}

C21_Witness ==
    /\ FullySuccessful /\ prev.outcome = "ready" /\ prev.resources = rec.resources
    /\ r.applyCalls # {} /\ r.applyCalls = DOMAIN rec.resources
    /\ mem.lastSyncTime = 2 /\ r.before.lastSyncTime = 1

\* C22: after an attempt in which deletes succeeded and a later apply
\* failed, the next fully successful attempt with the same desired mapping
\* ends with appliedResources equal to the desired names, every desired
\* name on the remote cluster, and no name that was applied and not desired
\* on the remote cluster.
C22_RecoversAfterPartialFailure ==
    (FullySuccessful /\ prev.outcome = "partial" /\ prev.resources = rec.resources)
        => /\ status.appliedResources = Desired(kind, rec.resources)
           /\ \A n \in Desired(kind, rec.resources) : ~Gone(kind, remote, n)
           /\ \A n \in prev.applied \ Desired(kind, rec.resources) : Gone(kind, remote, n)

C22_Witness ==
    /\ FullySuccessful /\ prev.outcome = "partial" /\ prev.resources = rec.resources
    /\ prev.applied \ Desired(kind, rec.resources) # {}
    /\ r.notFound /\ r.applyCalls # {}

\* C23: for ClusterSettings, every reset request, in the normal sync and in
\* the deletion pass, names at least one setting and only settings that
\* appliedResources listed when the attempt began (in the normal sync: and
\* that are not desired); a setting of the category that the record never
\* listed stays on the remote cluster.
C23_ResetOnlyOwnSettings ==
    kind = "ClusterSettings"
        => /\ \A u \in r.delCalls :
                 /\ u.keys # {}
                 /\ UnitNames(kind, u) \subseteq r.before.appliedResources
                 /\ r.path = "normal"
                       => UnitNames(kind, u) \cap Desired(kind, rec.resources) = {}
           /\ \A c \in Categories : Foreign \in remote[c]

C23_Witness ==
    /\ kind = "ClusterSettings" /\ DeletionReturned /\ ~r.refused /\ ~r.notFound
    /\ Cardinality(r.delCalls) = 2
    /\ \E u \in r.delCalls : Cardinality(u.keys) = 2
    /\ \A c \in Categories : remote[c] = {Foreign}

\* C24: after the password in the credentials secret has changed, a later
\* call for the cluster key returns a connection built with the new
\* password, not the connection cached before the change.
C24_CredentialsRefreshed ==
    \A w \in Workers :
        (g[w].pc = "done" /\ g[w].err = NoErr /\ g[w].pw = password)
            => g[w].conn.Password = password

\* C25: in every state the phase of a record is one of Pending, Syncing,
\* Ready, Error; a record that no sync attempt has touched has phase
\* Pending.
C25_PhaseIsOneOfFour ==
    rec.exists
        => /\ status.phase \in {PhasePending, PhaseSyncing, PhaseReady, PhaseError}
           /\ clock = 0 => status.phase = PhasePending

\* C26: for every kind, when the connection cannot be resolved at the start
\* of a normal sync attempt, the attempt ends with phase Error and the
\* failure in message, and makes no delete and no apply call.
C26_NoConnectionNoCalls ==
    (SyncReturned /\ ~Connected(rec))
        => /\ r.syncErr # NoErr
           /\ mem.phase = PhaseError
           /\ mem.message = Message("failed to connect", r.syncErr)
           /\ (r.retErr = NoErr => status.phase = PhaseError /\ status.message = mem.message)
           /\ r.delCalls = {} /\ r.applyCalls = {}
           /\ remote = InitialRemote(kind)

C26_Witness ==
    /\ SyncReturned /\ ~Connected(rec)
    /\ status.phase = PhaseError /\ status.message.err # NoErr
    /\ DOMAIN rec.resources # {}
    /\ queue.requeue = "after"

\* C27: the deletion branch of Reconcile returns an empty result and no
\* error, so once it has run for a record marked for deletion no further
\* attempt is scheduled for the record.
C27_DeletionSchedulesNothing ==
    DeletionReturned
        => r.result = 0 /\ r.retErr = NoErr /\ queue.requeue = "none"

C27_Witness ==
    /\ DeletionReturned /\ r.delCalls # {} /\ r.refused
    /\ r.result = 0 /\ queue.requeue = "none"

\* what the selector resolves to when every request is answered
ResolvedFor(sel) == Resolve(sel, CHOOSE e \in Envs : Wrong(e) = 0)

\* C28: a record is never synced through an entry built from another
\* selector: the connection a call returns has the endpoint, the user name
\* and (if set) the dialect override of the selector the call was made for,
\* also when another selector with the same namespace_name key came first.
C28_EntryMatchesSelector ==
    \A w \in Workers :
        (g[w].pc = "done" /\ g[w].err = NoErr)
            => /\ g[w].conn.Endpoint = ResolvedFor(g[w].sel).endpoint
               /\ g[w].conn.Username = ResolvedFor(g[w].sel).username
               /\ g[w].sel.ClusterType # "" => g[w].conn.ClusterType = g[w].sel.ClusterType

\* the call of worker w has been through detectClusterType
Probed(w) == g[w].pc \in {"store", "done"} /\ g[w].probed

\* C29: without an override, detection makes exactly one cluster-info call
\* and gives opensearch if and only if the answer's version.distribution is
\* "opensearch", else elasticsearch; a transport error, an error status or
\* an unparseable body makes detection and with it the creation fail.
C29_AutoDetection ==
    \A w \in Workers :
        (Probed(w) /\ g[w].sel.ClusterType = "")
            => /\ g[w].infoCalls = 1
               /\ g[w].info.kind = "ok"
                     => /\ g[w].err = NoErr
                        /\ g[w].built.ClusterType = "opensearch"
                              <=> g[w].info.distribution = "opensearch"
                        /\ g[w].built.ClusterType # "opensearch"
                              => g[w].built.ClusterType = "elasticsearch"
                        /\ g[w].built.Version = g[w].info.number
               /\ g[w].info.kind # "ok"
                     => /\ g[w].pc = "done" /\ g[w].err # NoErr
                        /\ g[w].conn = NoConn /\ g[w].built = NoConn

C29_Witness ==
    \E w, v \in Workers :
        /\ Probed(w) /\ g[w].sel.ClusterType = "" /\ g[w].info = InfoOK("", "8.11.0")
        /\ g[w].built.ClusterType = "elasticsearch"
        /\ Probed(v) /\ g[v].sel.ClusterType = "" /\ g[v].info = InfoBad("unparseable")
        /\ g[v].err # NoErr

\* C30: with an override, detection returns the override unchanged and
\* still makes exactly one cluster-info call; when that call fails or its
\* body does not parse, detection fails and the call stores no connection.
C30_OverrideDetection ==
    \A w \in Workers :
        (Probed(w) /\ g[w].sel.ClusterType # "")
            => /\ g[w].infoCalls = 1
               /\ g[w].info.kind = "ok"
                     => /\ g[w].err = NoErr
                        /\ g[w].built.ClusterType = g[w].sel.ClusterType
                        /\ g[w].built.Version = g[w].info.number
               /\ g[w].info.kind # "ok"
                     => /\ g[w].pc = "done" /\ g[w].err # NoErr
                        /\ g[w].conn = NoConn /\ g[w].built = NoConn

C30_Witness ==
    \E w, v \in Workers :
        /\ Probed(w) /\ g[w].sel = SelManualES /\ g[w].info = InfoOK("opensearch", "2.11.0")
        /\ g[w].built.ClusterType = "elasticsearch"
        /\ Probed(v) /\ g[v].sel = SelManual /\ g[v].info = InfoBad("http error")
        /\ g[v].err # NoErr /\ pool[g[v].key] = NoConn

\* C31: for ClusterSettings, after a fully successful normal sync
\* appliedResources, as a set, is the set of category.settingKey over the
\* categories of the desired mapping and the top-level keys of each
\* category's object, and the attempt made exactly one apply call per
\* desired category, which carried every setting of the category.
C31_SettingsTrackedPerKey ==
    (FullySuccessful /\ kind = "ClusterSettings")
        => /\ mem.appliedResources =
                  {FullKey(c[1], c[2]) :
                      c \in {x \in (DOMAIN rec.resources) \X SettingKeys :
                                x[2] \in rec.resources[x[1]].keys}}
           /\ status.appliedResources = mem.appliedResources
           /\ r.applyCalls = DOMAIN rec.resources
           /\ ~r.repeated
           /\ \A c \in DOMAIN rec.resources : rec.resources[c].keys \subseteq remote[c]

C31_Witness ==
    /\ FullySuccessful /\ kind = "ClusterSettings"
    /\ DOMAIN rec.resources = Categories
    /\ \E c \in Categories : rec.resources[c].keys = SettingKeys
    /\ Cardinality(r.applyCalls) = 2
    /\ Cardinality(status.appliedResources) >= 3

\* C32: in the deletion pass the flat-name kinds call the adapter delete
\* for each name of the desired mapping, and ClusterSettings resets, one
\* call per category, every category.settingKey that appliedResources
\* listed; the pass stops at the first adapter error and makes no apply
\* call.  (The pass runs for a record that carries the finalizer.)
C32_DeletionPassUnits ==
    r.path = "deletion"
        => /\ r.applyCalls = {}
           /\ ~r.repeated
           /\ kind \in FlatKinds => r.delCalls \subseteq DOMAIN rec.resources
           /\ kind = "ClusterSettings"
                 => /\ \A u \in r.delCalls :
                          UnitNames(kind, u) =
                              {n \in r.before.appliedResources : SplitCategory(n) = u.category}
                    /\ \A u, v \in r.delCalls : u.category = v.category => u = v
           /\ r.refused
                 => /\ r.pc \in {"del_finish", "returned"}
                    /\ r.syncErr \in {ApiErr, NetErr}
                    /\ Cardinality(r.delCalls \cap r.toDelete) = 1
           /\ (DeletionReturned /\ (rec.finalizer \/ ~rec.exists) /\ r.syncErr = NoErr)
                 => /\ kind \in FlatKinds => r.delCalls = DOMAIN rec.resources
                    /\ kind = "ClusterSettings"
                          => UNION {UnitNames(kind, u) : u \in r.delCalls}
                                 = r.before.appliedResources

C32_Witness ==
    /\ DeletionReturned /\ kind \in FlatKinds /\ r.syncErr = NoErr
    /\ r.delCalls = Names
    /\ r.before.appliedResources # {} /\ r.before.appliedResources # Names

\* C33: the phase of a record changes only along Pending -> Syncing,
\* Ready -> Syncing, Error -> Syncing, Syncing -> Ready and Syncing -> Error
\* (so never from Ready to Error or from Error to Ready without Syncing in
\* between), and only a step of the reconciler's sync path changes it.
C33_PhaseTransitions ==
    [][status'.phase # status.phase
          => /\ <<status.phase, status'.phase>> \in
                   {<<PhasePending, PhaseSyncing>>, <<PhaseReady, PhaseSyncing>>,
                    <<PhaseError, PhaseSyncing>>, <<PhaseSyncing, PhaseReady>>,
                    <<PhaseSyncing, PhaseError>>}
             /\ r.path = "normal" /\ r.inSync]_vars

\* C34: in manual mode (the selector has an endpoint) the call fails,
\* stores no connection and makes no cluster-info request if the user name
\* is empty, if no password reference is given, if the password secret is
\* missing or its key is absent or empty, or if a CA reference is given and
\* the CA secret is missing or its key is absent or empty; in auto-discovery
\* mode it fails if the ECK cluster resource, the credentials secret or the
\* CA secret is missing.
C34_BadConfigurationFails ==
    \A w \in Workers :
        LET sel == g[w].sel
            asked == g[w].asked
            manual == /\ sel.Endpoint # ""
                      /\ \/ sel.Username = ""
                         \/ ~sel.PasswordSecretRef
                         \/ asked.secret \in {"missing", "no key"}
                         \/ sel.CACertSecretRef /\ asked.ca \in {"missing", "no key"}
            auto == /\ sel.Endpoint = ""
                    /\ \/ asked.cluster = "missing"
                       \/ asked.secret = "missing"
                       \/ asked.ca = "missing"
        IN  (g[w].pc \in {"store", "done"} /\ (manual \/ auto))
                => /\ g[w].pc = "done"
                   /\ g[w].err # NoErr
                   /\ g[w].conn = NoConn /\ g[w].built = NoConn
                   /\ ~g[w].probed /\ g[w].infoCalls = 0 /\ g[w].info = InfoNotAsked

\* both Syncs have returned, neither had a call fail
TwoCompleted == \A w \in Workers : two[w].pc = "done" /\ two[w].err = NoErr
\* the two records declare disjoint name sets
TwoDisjoint ==
    \A w, v \in Workers : w # v => DOMAIN two[w].resources \cap DOMAIN two[v].resources = {}
\* where every interleaving has to end
TwoSettled ==
    /\ \A w \in Workers :
          /\ two[w].status.phase = PhaseReady
          /\ two[w].status.appliedResources = DOMAIN two[w].resources
    /\ \A w \in Workers : \A n \in DOMAIN two[w].resources : remote[n] # ""

\* C35: when two records on the same cluster key with disjoint desired name
\* sets are synced concurrently by two workers, every interleaving of their
\* delete and apply calls that completes without error ends with both
\* records Ready, appliedResources of each equal to its own desired names,
\* and every desired name of both on the remote cluster.
C35_DisjointRecordsCommute ==
    (TwoCompleted /\ TwoDisjoint) => TwoSettled

\* C35 as amended: the same, for two records of which neither lists as
\* applied a name that the other declares.
C35_DisjointAppliedCommute ==
    (/\ TwoCompleted /\ TwoDisjoint
     /\ \A w, v \in Workers : w # v => two[w].before \cap DOMAIN two[v].resources = {})
        => TwoSettled

C35_Witness ==
    /\ TwoCompleted /\ TwoDisjoint
    /\ \A w \in Workers : DOMAIN two[w].resources # {} /\ two[w].before # {}
    /\ \A w, v \in Workers : w # v => two[w].before \cap DOMAIN two[v].resources = {}
    /\ pool[ClusterKey(TwoSelector)] # NoConn
    /\ faults = 1

\* C36: no remote delete or apply call is made for a record unless the
\* reconciler's finalizer is stored on it: an attempt whose finalizer update
\* failed returns before Sync, and the attempt on a record that is marked
\* for deletion and has no finalizer makes no remote call.
C36_NoCallWithoutFinalizer ==
    [][/\ (r'.delCalls \ r.delCalls # {} \/ r'.applyCalls \ r.applyCalls # {} \/ remote' # remote)
            => rec.exists /\ rec.finalizer
       /\ (r'.pc = "returned" /\ r'.path = "normal" /\ ~rec'.finalizer)
            => /\ ~r'.inSync /\ r'.retErr = UpdateErr
               /\ r'.delCalls = {} /\ r'.applyCalls = {}
               /\ g'[RW] = GIdle /\ status' = status
       /\ (r'.pc = "returned" /\ r'.path = "deletion" /\ rec'.exists /\ ~rec'.finalizer)
            => /\ r'.delCalls = {} /\ r'.applyCalls = {}
               /\ g'[RW] = GIdle /\ remote' = remote]_vars

C36_Witness ==
    /\ DeletionReturned /\ rec.exists /\ rec.deletionTimestamp /\ ~rec.finalizer
    /\ DOMAIN rec.resources # {}
    /\ faults = 1 /\ clock = 2
    /\ r.delCalls = {} /\ remote = InitialRemote(kind)

\* C37: at the start of every attempt, whatever attempts, failures and
\* edits came before, every object that the record has written to the
\* remote cluster and not deleted since is named in the keys of the desired
\* mapping or in appliedResources, so nothing written in a failed attempt is
\* lost from tracking.
C37_WrittenObjectsStayTracked ==
    (r.pc = "idle" /\ rec.exists)
        => \A n \in IF kind = "ClusterSettings"
                       THEN {FullKey(c, s) : c \in Categories, s \in SettingKeys}
                       ELSE Names :
              ~Gone(kind, remote, n)
                  => n \in Desired(kind, rec.resources) \cup status.appliedResources

\* C38: the error Reconcile returns from a normal attempt is the outcome
\* of the deferred status update, not the outcome of Sync: a failed Sync
\* whose final status update is stored is returned without error and with
\* RequeueAfter equal to the resync interval; a successful Sync whose final
\* status update fails is returned as an error.
C38_ReturnsOutcomeOfStatusUpdate ==
    [][(r.pc = "finish" /\ r'.pc = "returned")
          => /\ r'.retErr = IF faults' = faults THEN NoErr ELSE UpdateErr
             /\ (r.inSync /\ r.syncErr # NoErr /\ faults' = faults)
                   => /\ r'.retErr = NoErr
                      /\ r'.result = ParseDuration(IntervalOf(rec)).seconds
                      /\ queue' = Queue(FALSE, "after", ParseDuration(IntervalOf(rec)).seconds)
             /\ (r.inSync /\ r.syncErr = NoErr /\ faults' # faults)
                   => /\ r'.retErr # NoErr
                      /\ queue'.requeue = "backoff"]_vars

C38_Witness ==
    /\ SyncReturned /\ r.syncErr = ApiErr /\ r.applyCalls # {}
    /\ r.retErr = NoErr /\ r.result = 300
    /\ queue = Queue(FALSE, "after", 300)

\* C39: the deletion path leaves the status of the record as it is: phase,
\* message, appliedResources, lastSyncTime and conditions are the same after
\* a deletion pass, successful or failed, as before it, in the stored status
\* and in the reconciler's copy; the path never sets Syncing or Error.
C39_DeletionLeavesStatus ==
    [][r'.path = "deletion" => (status' = status /\ mem' = status)]_vars

C39_Witness ==
    /\ DeletionReturned /\ r.refused /\ r.syncErr = ApiErr
    /\ status.phase = PhaseReady /\ status.appliedResources # {}
    /\ mem = status

\* C40: the ResourceSynced condition tells how the last attempt ended: its
\* status is True only after a successful sync attempt; after a failed
\* sync attempt it is not True.
C40_ConditionTellsOutcome ==
    SyncReturned
        => /\ mem.conditions.type = "ResourceSynced"
           /\ mem.conditions.status = "True" <=> r.syncErr = NoErr

====
